---- MODULE Spec2Model ----
(***************************************************************************)
(* Model of the Couchbase module's StartContainer bootstrap pipeline       *)
(* (modules/couchbase/couchbase.go) and of the host-port wait strategy     *)
(* (wait/host_port.go).                                                    *)
(***************************************************************************)
EXTENDS Integers, Sequences, FiniteSets, TLC

VARIABLES config, pc, step, bidx, sub, err, result, trace, requests,
          lastStatus, attempt, misses, lastObs, boWait, ctxDone, probed

cbVars == <<config, pc, step, bidx, sub, err, result, trace, requests,
            lastStatus, attempt, misses, lastObs, boWait, ctxDone, probed>>

\* State of one HostPortStrategy and of one run of its WaitUntilReady.
VARIABLES hp, hpc, now, cancelAt, exposed, internalPort, port, hpRet,
          dials, execs, lastDial, lastExit, execEnd, execGap, sleeps,
          checks, lastCheck

hpVars == <<hp, hpc, now, cancelAt, exposed, internalPort, port, hpRet,
            dials, execs, lastDial, lastExit, execEnd, execGap, sleeps,
            checks, lastCheck>>

vars == <<cbVars, hpVars>>

\* ------------------------------------------------------------------ bounds

\* Largest number of buckets a configuration declares.
MaxBuckets == 2

\* Number of operation calls an exponential backoff allows before its
\* elapsed-time budget is exhausted (NextBackOff returns Stop).
MaxBackoffAttempts == 5

\* Largest duration handed to WithStartupTimeout and WithPollInterval.
MaxDuration == 2

\* Longest time one dial or one exec takes.
MaxOpTime == 1

\* Caps on the number of dials and of execs of one wait.
MaxDials == 3

MaxExecs == 3

\* defaultStartupTimeout() and defaultPollInterval(), in the model's time
\* unit (scaled down: the defaults are 60 s and 100 ms).
DefaultStartupTimeout == 3

DefaultPollInterval == 1

\* ------------------------------------------------------------ configuration

\* Services whose presence changes the control flow of the pipeline.
OptionalServices == {"query", "index", "analytics", "eventing"}

\* contains(services, service): membership by identifier.
contains(services, service) == service \in services

\* A bucket definition: its name (position) and whether a primary index
\* is required.
Bucket(i, primary) == [name |-> i, queryPrimaryIndex |-> primary]

BucketLists ==
    UNION { { [i \in 1..n |-> Bucket(i, f[i])] : f \in [1..n -> BOOLEAN] }
            : n \in 0..MaxBuckets }

\* The Config record StartContainer builds from its options.
Configs ==
    { [enabledServices |-> {"kv"} \cup s, buckets |-> b, isEnterprise |-> FALSE]
      : s \in SUBSET OptionalServices, b \in BucketLists }

\* ---------------------------------------------------------------- helpers

Nil == "nil"

\* clusterInitFunc with the services set up after the memory quotas.
clusterInitFuncSwapped(services) ==
    <<"waitUntilNodeIsOnline", "initializeIsEnterprise", "renameNode",
      "setMemoryQuotas", "initializeServices", "configureAdminUser",
      "configureExternalPorts">>
    \o (IF contains(services, "index") THEN <<"configureIndexer">> ELSE <<>>)
    \o <<"waitUntilAllNodesAreHealthy">>

\* clusterInitFunc with configureIndexer appended whatever the services.
clusterInitFuncAlwaysIndexer(services) ==
    <<"waitUntilNodeIsOnline", "initializeIsEnterprise", "renameNode",
      "initializeServices", "setMemoryQuotas", "configureAdminUser",
      "configureExternalPorts", "configureIndexer",
      "waitUntilAllNodesAreHealthy">>

\* The clusterInit functions in the order StartContainer assembles them.
clusterInitFunc(services) ==
    <<"waitUntilNodeIsOnline", "initializeIsEnterprise", "renameNode",
      "initializeServices", "setMemoryQuotas", "configureAdminUser",
      "configureExternalPorts">>
    \o (IF contains(services, "index") THEN <<"configureIndexer">> ELSE <<>>)
    \o <<"waitUntilAllNodesAreHealthy">>

\* Outcomes of one doHttpRequest call. buildErr: getUrl or NewRequest failed
\* (nothing is sent); doErr: http.DefaultClient.Do failed; readErr: reading
\* the body failed; a status: the status of the response that was read.
\* The response status is not inspected.
Statuses == {"200", "500"}

DoHttpOutcomes(done) ==
    IF done THEN {"doErr"} ELSE {"buildErr", "doErr", "readErr"} \cup Statuses

\* doHttpRequestErr with an error for every status but 200.
doHttpRequestErrChecked(o) ==
    IF o = "200" THEN Nil ELSE IF o \in Statuses THEN "statusErr" ELSE o

\* The error doHttpRequest returns for an outcome.
doHttpRequestErr(o) == IF o \in Statuses THEN Nil ELSE o

\* Whether the request reached http.DefaultClient.Do.
doHttpRequestSent(o) == o # "buildErr"

\* Outcomes of an HTTP wait strategy's WaitUntilReady: ready, or the
\* strategy's deadline error, or the caller's context being done.
HTTPWaitOutcomes(done) == IF done THEN {"ctxErr"} ELSE {Nil, "timeout"}

\* The test `err != nil` that follows every step.
IsError(e) == e # Nil

Entry(op, b, ret) == [op |-> op, b |-> b, ret |-> ret]

Ops(t) == { t[i].op : i \in 1..Len(t) }

\* EditionCheck without the validation.
EditionCheckNone(isEnterprise, services) == Nil

\* The edition validation at the end of initializeIsEnterprise.
EditionCheck(isEnterprise, services) ==
    IF ~isEnterprise /\ contains(services, "analytics") THEN "analyticsEnterpriseOnly"
    ELSE IF ~isEnterprise /\ contains(services, "eventing") THEN "eventingEnterpriseOnly"
    ELSE Nil

\* wait.ForAll(ws...).WaitUntilReady: the strategies are evaluated in order
\* and the first error is returned. f is the index of the strategy that
\* fails with error o, 0 if none fails; the result lists every strategy
\* that was evaluated with what it returned.
ForAllResults(ws, f, o) ==
    [i \in 1..(IF f = 0 THEN Len(ws) ELSE f) |->
        [probe |-> ws[i], ret |-> IF i = f THEN o ELSE Nil]]

\* HealthStrategies with a probe for every service, enabled or not.
HealthStrategiesAllServices(services) ==
    <<"pools/default", "query/admin/ping", "analytics/admin/ping",
      "eventing/api/v1/config">>

\* The strategies waitUntilAllNodesAreHealthy hands to wait.ForAll, in order.
HealthStrategies(services) ==
    <<"pools/default">>
    \o (IF contains(services, "query") THEN <<"query/admin/ping">> ELSE <<>>)
    \o (IF contains(services, "analytics") THEN <<"analytics/admin/ping">> ELSE <<>>)
    \o (IF contains(services, "eventing") THEN <<"eventing/api/v1/config">> ELSE <<>>)

\* AfterKeyspace without the test of the query service.
AfterKeyspaceNoQueryCheck(bucket, services) ==
    IF bucket.queryPrimaryIndex THEN "createPrimaryIndex" ELSE "nextBucket"

\* What createBuckets does for a bucket after the sub-step s returned nil.
AfterKeyspace(bucket, services) ==
    IF bucket.queryPrimaryIndex
    THEN IF ~contains(services, "query") THEN "primaryIndexIgnored"
         ELSE "createPrimaryIndex"
    ELSE "nextBucket"

\* NextSub without the readiness probe after the create request.
NextSubNoProbe(s, bucket, services) ==
    CASE s = "createBucket" ->
            IF contains(services, "query") THEN "isQueryKeyspacePresent"
            ELSE AfterKeyspace(bucket, services)
      [] s = "isQueryKeyspacePresent" -> AfterKeyspace(bucket, services)
      [] s = "createPrimaryIndex" -> "isPrimaryIndexOnline"
      [] OTHER -> "nextBucket"

\* NextSub without the wait for the primary index to come online.
NextSubNoOnline(s, bucket, services) ==
    CASE s = "createBucket" -> "waitForAllServicesEnabled"
      [] s = "waitForAllServicesEnabled" ->
            IF contains(services, "query") THEN "isQueryKeyspacePresent"
            ELSE AfterKeyspace(bucket, services)
      [] s = "isQueryKeyspacePresent" -> AfterKeyspace(bucket, services)
      [] OTHER -> "nextBucket"

NextSub(s, bucket, services) ==
    CASE s = "createBucket" -> "waitForAllServicesEnabled"
      [] s = "waitForAllServicesEnabled" ->
            IF contains(services, "query") THEN "isQueryKeyspacePresent"
            ELSE AfterKeyspace(bucket, services)
      [] s = "isQueryKeyspacePresent" -> AfterKeyspace(bucket, services)
      [] s = "createPrimaryIndex" -> "isPrimaryIndexOnline"
      [] s = "isPrimaryIndexOnline" -> "nextBucket"
      [] OTHER -> "nextBucket"

\* OperationErr with the test of the flag inverted.
OperationErrInverted(name, o, flag) ==
    IF o \notin Statuses THEN o
    ELSE IF flag THEN (IF name = "isQueryKeyspacePresent" THEN "notPresent" ELSE "notOnline")
    ELSE Nil

\* The error one call of a backoff operation returns: the request's error,
\* or the "not present"/"not online" error when the flag read from the
\* response is false.
OperationErr(name, o, flag) ==
    IF IsError(doHttpRequestErr(o)) THEN doHttpRequestErr(o)
    ELSE IF ~flag THEN (IF name = "isQueryKeyspacePresent" THEN "notPresent" ELSE "notOnline")
    ELSE Nil

\* backoff.Retry returns as soon as the operation returns nil.
RetryDone(e) == ~IsError(e)

\* NextBackOffStop of a backoff that was not wrapped with the context.
NextBackOffStopNoCtx(n, done) == n >= MaxBackoffAttempts

\* NextBackOff returns Stop: the budget is used up or the context is done.
NextBackOffStop(n, done) == n >= MaxBackoffAttempts \/ done

\* ------------------------------------------------------------------- state

boVars == <<attempt, misses, lastObs, boWait>>

\* Abort returning a new error in place of the step's.
AbortWrapped(e) ==
    /\ result' = [container |-> "nil", err |-> "bootstrapFailed"]
    /\ pc' = "returned"
    /\ UNCHANGED <<requests, config>>

\* Abort terminating the container on the way out.
AbortTerminate(e) ==
    /\ result' = [container |-> "nil", err |-> e]
    /\ pc' = "returned"
    /\ requests' = Append(requests, <<"terminate", 0>>)
    /\ UNCHANGED config

\* `return nil, err`: nothing else is done on the way out.
Abort(e) ==
    /\ result' = [container |-> "nil", err |-> e]
    /\ pc' = "returned"
    /\ UNCHANGED <<requests, config>>

\* `return &couchbaseContainer, nil`.
Complete ==
    /\ result' = [container |-> "handle", err |-> Nil]
    /\ pc' = "returned"
    /\ UNCHANGED <<requests, config>>

\* The caller's context is cancelled (or its deadline passes).
CancelCtx ==
    /\ pc # "returned"
    /\ ~ctxDone
    /\ ctxDone' = TRUE
    /\ UNCHANGED <<config, pc, step, bidx, sub, err, result, trace, requests,
                   lastStatus, boVars, probed>>

\* testcontainers.GenericContainer and its error check.
GenericContainer ==
    /\ pc = "start"
    /\ \E o \in {Nil, "startErr"} :
         /\ err' = o
         /\ IF IsError(o) THEN Abort(o)
            ELSE /\ pc' = "init"
                 /\ UNCHANGED <<result, requests, config>>
    /\ UNCHANGED <<step, bidx, sub, trace, lastStatus, boVars, ctxDone, probed>>

CurrentInit == clusterInitFunc(config.enabledServices)[step]

AtInit(name) == pc = "init" /\ CurrentInit = name

\* RequestStep sending the request a second time after a transport error.
RequestStepRetry(name, b, o) ==
    /\ requests' = IF o = "doErr"
                   THEN Append(Append(requests, <<name, b>>), <<name, b>>)
                   ELSE IF doHttpRequestSent(o) THEN Append(requests, <<name, b>>)
                   ELSE requests
    /\ lastStatus' = IF o \in Statuses THEN o ELSE "none"
    /\ err' = doHttpRequestErr(o)
    /\ trace' = Append(trace, Entry(name, b, doHttpRequestErr(o)))

\* A function that issues one request through doHttpRequest and returns the
\* request's error.
RequestStep(name, b, o) ==
    /\ requests' = IF doHttpRequestSent(o) THEN Append(requests, <<name, b>>)
                   ELSE requests
    /\ lastStatus' = IF o \in Statuses THEN o ELSE "none"
    /\ err' = doHttpRequestErr(o)
    /\ trace' = Append(trace, Entry(name, b, doHttpRequestErr(o)))

\* A function that runs one HTTP wait strategy and returns its error.
WaitStep(name, b, o) ==
    /\ err' = o
    /\ trace' = Append(trace, Entry(name, b, o))
    /\ UNCHANGED <<requests, lastStatus>>

WaitUntilNodeIsOnline ==
    /\ AtInit("waitUntilNodeIsOnline")
    /\ \E o \in HTTPWaitOutcomes(ctxDone) : WaitStep("waitUntilNodeIsOnline", 0, o)
    /\ pc' = "initCheck"
    /\ UNCHANGED <<config, step, bidx, sub, result, boVars, ctxDone, probed>>

\* SetEnterprise that also drops the enterprise-only services when the
\* edition is not enterprise.
SetEnterpriseDowngrade(cfg, ent) ==
    [cfg EXCEPT !.isEnterprise = ent,
                !.enabledServices = IF ent THEN @ ELSE @ \ {"analytics", "eventing"}]

\* c.config.isEnterprise = the value read from the response.
SetEnterprise(cfg, ent) == [cfg EXCEPT !.isEnterprise = ent]

InitializeIsEnterprise ==
    /\ AtInit("initializeIsEnterprise")
    /\ \E o \in DoHttpOutcomes(ctxDone), ent \in BOOLEAN :
         /\ (o \notin Statuses => ~ent)
         /\ requests' = IF doHttpRequestSent(o)
                        THEN Append(requests, <<"initializeIsEnterprise", 0>>)
                        ELSE requests
         /\ lastStatus' = IF o \in Statuses THEN o ELSE "none"
         /\ IF IsError(doHttpRequestErr(o))
            THEN /\ err' = doHttpRequestErr(o)
                 /\ UNCHANGED config
            ELSE /\ config' = SetEnterprise(config, ent)
                 /\ err' = EditionCheck(ent, config.enabledServices)
         /\ trace' = Append(trace, Entry("initializeIsEnterprise", 0, err'))
    /\ pc' = "initCheck"
    /\ UNCHANGED <<step, bidx, sub, result, boVars, ctxDone, probed>>

RenameNode ==
    /\ AtInit("renameNode")
    /\ \/ \* getInternalIPAddress fails: no request
          /\ err' = "ipErr"
          /\ trace' = Append(trace, Entry("renameNode", 0, "ipErr"))
          /\ lastStatus' = "none"
          /\ UNCHANGED requests
       \/ \E o \in DoHttpOutcomes(ctxDone) : RequestStep("renameNode", 0, o)
    /\ pc' = "initCheck"
    /\ UNCHANGED <<config, step, bidx, sub, result, boVars, ctxDone, probed>>

SimpleStep(name) ==
    /\ AtInit(name)
    /\ \E o \in DoHttpOutcomes(ctxDone) : RequestStep(name, 0, o)
    /\ pc' = "initCheck"
    /\ UNCHANGED <<config, step, bidx, sub, result, boVars, ctxDone, probed>>

InitializeServices == SimpleStep("initializeServices")

SetMemoryQuotas == SimpleStep("setMemoryQuotas")

ConfigureAdminUser == SimpleStep("configureAdminUser")

ConfigureExternalPorts == SimpleStep("configureExternalPorts")

ConfigureIndexer == SimpleStep("configureIndexer")

\* wait.ForAll(...).WaitUntilReady: the strategies are evaluated in order
\* and the first failure ends the evaluation. f is the failing strategy
\* (0: none).
WaitUntilAllNodesAreHealthy ==
    /\ AtInit("waitUntilAllNodesAreHealthy")
    /\ LET ws == HealthStrategies(config.enabledServices) IN
       \E f \in 0..Len(ws) :
         /\ (ctxDone => f = 1)
         /\ \E o \in HTTPWaitOutcomes(ctxDone) :
              /\ (f = 0 <=> o = Nil)
              /\ probed' = ForAllResults(ws, f, o)
              /\ WaitStep("waitUntilAllNodesAreHealthy", 0, o)
    /\ pc' = "initCheck"
    /\ UNCHANGED <<config, step, bidx, sub, result, boVars, ctxDone>>

\* Entering createBuckets' loop body for bucket j, or leaving the loop.
EnterBucket(j) ==
    IF j <= Len(config.buckets)
    THEN /\ bidx' = j
         /\ sub' = "createBucket"
         /\ pc' = "buckets"
         /\ UNCHANGED <<result, requests, config>>
    ELSE /\ Complete
         /\ UNCHANGED <<bidx, sub>>

\* The loop over clusterInitFunc: `if err = fn(ctx); err != nil`.
InitCheck ==
    /\ pc = "initCheck"
    /\ IF IsError(err)
       THEN Abort(err) /\ UNCHANGED <<step, bidx, sub>>
       ELSE IF step < Len(clusterInitFunc(config.enabledServices))
            THEN /\ step' = step + 1
                 /\ pc' = "init"
                 /\ UNCHANGED <<bidx, sub, result, requests, config>>
            ELSE EnterBucket(1) /\ UNCHANGED step
    /\ UNCHANGED <<err, trace, lastStatus, boVars, ctxDone, probed>>

AtSub(name) == pc = "buckets" /\ sub = name

CreateBucket ==
    /\ AtSub("createBucket")
    /\ \E o \in DoHttpOutcomes(ctxDone) : RequestStep("createBucket", bidx, o)
    /\ pc' = "bucketsCheck"
    /\ UNCHANGED <<config, step, bidx, sub, result, boVars, ctxDone, probed>>

WaitForAllServicesEnabled ==
    /\ AtSub("waitForAllServicesEnabled")
    /\ \E o \in HTTPWaitOutcomes(ctxDone) : WaitStep("waitForAllServicesEnabled", bidx, o)
    /\ pc' = "bucketsCheck"
    /\ UNCHANGED <<config, step, bidx, sub, result, boVars, ctxDone, probed>>

\* The `!contains(enabledServices, query)` error of createBuckets.
PrimaryIndexIgnored ==
    /\ AtSub("primaryIndexIgnored")
    /\ err' = "primaryIndexIgnored"
    /\ trace' = Append(trace, Entry("primaryIndexIgnored", bidx, "primaryIndexIgnored"))
    /\ pc' = "bucketsCheck"
    /\ UNCHANGED <<config, step, bidx, sub, result, requests, lastStatus, boVars,
                   ctxDone, probed>>

CreatePrimaryIndex ==
    /\ AtSub("createPrimaryIndex")
    /\ \E o \in DoHttpOutcomes(ctxDone) : RequestStep("createPrimaryIndex", bidx, o)
    /\ pc' = "bucketsCheck"
    /\ UNCHANGED <<config, step, bidx, sub, result, boVars, ctxDone, probed>>

\* One call of the operation inside backoff.Retry, and what Retry does with
\* its result: return nil, give up, or wait for the next interval.
BackoffAttempt(name) ==
    /\ AtSub(name)
    /\ ~boWait
    /\ \E o \in DoHttpOutcomes(ctxDone), flag \in BOOLEAN :
         /\ (o \notin Statuses => ~flag)
         /\ LET e == OperationErr(name, o, flag) IN
            /\ attempt' = attempt + 1
            /\ lastStatus' = IF o \in Statuses THEN o ELSE "none"
            /\ lastObs' = IF o \notin Statuses THEN "error"
                          ELSE IF flag THEN "true" ELSE "false"
            /\ misses' = IF IsError(e) THEN misses + 1 ELSE misses
            /\ IF RetryDone(e)
               THEN /\ err' = Nil
                    /\ trace' = Append(trace, Entry(name, bidx, Nil))
                    /\ pc' = "bucketsCheck"
                    /\ UNCHANGED boWait
               ELSE IF NextBackOffStop(attempt + 1, ctxDone)
               THEN /\ err' = IF ctxDone THEN "ctxErr" ELSE e
                    /\ trace' = Append(trace, Entry(name, bidx, err'))
                    /\ pc' = "bucketsCheck"
                    /\ UNCHANGED boWait
               ELSE /\ boWait' = TRUE
                    /\ UNCHANGED <<err, trace, pc>>
    /\ UNCHANGED <<config, step, bidx, sub, result, requests, ctxDone, probed>>

\* The select after a failed attempt: the context is done, or the timer fires.
BackoffWake(name) ==
    /\ AtSub(name)
    /\ boWait
    /\ boWait' = FALSE
    /\ IF ctxDone
       THEN /\ err' = "ctxErr"
            /\ trace' = Append(trace, Entry(name, bidx, "ctxErr"))
            /\ pc' = "bucketsCheck"
       ELSE UNCHANGED <<err, trace, pc>>
    /\ UNCHANGED <<config, step, bidx, sub, result, requests, lastStatus, attempt,
                   misses, lastObs, ctxDone, probed>>

IsQueryKeyspacePresent == BackoffAttempt("isQueryKeyspacePresent")

IsQueryKeyspacePresentWait == BackoffWake("isQueryKeyspacePresent")

IsPrimaryIndexOnline == BackoffAttempt("isPrimaryIndexOnline")

IsPrimaryIndexOnlineWait == BackoffWake("isPrimaryIndexOnline")

\* The `if err != nil { return err }` after each sub-step of createBuckets,
\* and StartContainer's own check of createBuckets' result.
BucketsCheck ==
    /\ pc = "bucketsCheck"
    /\ IF IsError(err)
       THEN Abort(err) /\ UNCHANGED <<bidx, sub, boVars>>
       ELSE LET n == NextSub(sub, config.buckets[bidx], config.enabledServices) IN
            /\ attempt' = 0
            /\ misses' = 0
            /\ lastObs' = "none"
            /\ boWait' = FALSE
            /\ IF n = "nextBucket"
               THEN EnterBucket(bidx + 1)
               ELSE /\ sub' = n
                    /\ pc' = "buckets"
                    /\ UNCHANGED <<bidx, result, requests, config>>
    /\ UNCHANGED <<step, err, trace, lastStatus, ctxDone, probed>>

\* --------------------------------------------------------- host-port wait

\* hp.timeout is a pointer: the empty set is nil, {d} points to d.
NoTimeout == {}

DurationArgs == (0 - 1)..MaxDuration

PortArgs == {"", "80/tcp"}

\* NewHostPortStrategy(port).
NewHostPortStrategy(p) ==
    [Port |-> p, timeout |-> NoTimeout, PollInterval |-> DefaultPollInterval]

\* The timeout WaitUntilReady hands to context.WithTimeout.
Timeout(s) ==
    IF s.timeout = NoTimeout THEN DefaultStartupTimeout
    ELSE CHOOSE d \in s.timeout : TRUE

\* The wait starts at time 0, so this is the deadline of its context.
Deadline == Timeout(hp)

\* ctx.Err() at time t: the parent was cancelled before the deadline, or
\* the deadline has passed, or nil.
CtxErr(t) ==
    IF cancelAt >= 0 /\ cancelAt < Deadline THEN "canceled"
    ELSE IF t >= Deadline THEN "deadlineExceeded"
    ELSE Nil

\* Elapse waiting two intervals for one.
ElapseTwice(d) == IF d > 0 THEN 2 * d ELSE 0

\* time.Sleep and time.After return at once for a duration <= 0.
Elapse(d) == IF d > 0 THEN d ELSE 0

\* checkTarget: the target's state cannot be read or is not running.
CheckTargetOutcomes == {Nil, "targetErr"}

\* The errors of a dial: connection refused is the one that is retried.
IsConnRefused(o) == o = "refused"

DialOutcomes == {"ok", "refused", "other"}

\* Exit codes of the internal check command.
ExitCodes == {"0", "1", "126"}

\* Exit code 126: the command is not executable.
IsNotExecutable(code) == code = "126"

hpRun == <<now, exposed, internalPort, port, dials, execs, lastDial, lastExit,
           execEnd, execGap, sleeps, checks, lastCheck>>

WithStartupTimeout(d) ==
    /\ hpc = "idle"
    /\ hp' = [hp EXCEPT !.timeout = {d}]
    /\ UNCHANGED <<hpc, cancelAt, hpRet, hpRun>>

WithPollInterval(d) ==
    /\ hpc = "idle"
    /\ hp' = [hp EXCEPT !.PollInterval = d]
    /\ UNCHANGED <<hpc, cancelAt, hpRet, hpRun>>

HPReturn(e) ==
    /\ hpRet' = e
    /\ hpc' = "done"

Running == hpc \notin {"idle", "done"}

\* The caller cancels the context it gave to WaitUntilReady.
CancelParent ==
    /\ Running
    /\ cancelAt < 0
    /\ cancelAt' = now
    /\ UNCHANGED <<hp, hpc, hpRet, hpRun>>

\* A port mapping of the target appears after its start.
ExposePort ==
    /\ Running
    /\ exposed = {}
    /\ exposed' = {"80/tcp"}
    /\ UNCHANGED <<hp, hpc, cancelAt, hpRet, now, internalPort, port, dials,
                   execs, lastDial, lastExit, execEnd, execGap, sleeps, checks,
                   lastCheck>>

\* WaitUntilReady up to target.Host.
WaitStart ==
    /\ hpc = "idle"
    /\ \E o \in {Nil, "hostErr"} :
         IF IsError(o) THEN HPReturn(o)
         ELSE hpc' = "resolve" /\ UNCHANGED hpRet
    /\ UNCHANGED <<hp, cancelAt, hpRun>>

\* PortCandidates falling back to a fixed port when none is exposed.
PortCandidatesFallback(p, ports) ==
    IF p # "" THEN {p} ELSE IF ports = {} THEN {"80/tcp"} ELSE ports

\* The ports internalPort may be set to: hp.Port, or any key of the port
\* map read once from target.Ports.
PortCandidates(p, ports) == IF p # "" THEN {p} ELSE ports

\* StrategyAfterResolve with the chosen port stored in the strategy.
StrategyStoresPort(s, p) == [s EXCEPT !.Port = p]

\* The strategy after internalPort was chosen: the port goes to a local
\* variable, the strategy is not written.
StrategyAfterResolve(s, p) == s

\* The choice of internalPort: hp.Port, or any exposed port.
ResolvePort ==
    /\ hpc = "resolve"
    /\ \/ \* target.Ports fails
          /\ hp.Port = ""
          /\ HPReturn("portsErr")
          /\ UNCHANGED <<internalPort, hp>>
       \/ IF PortCandidates(hp.Port, exposed) # {}
          THEN /\ internalPort' \in PortCandidates(hp.Port, exposed)
               /\ hp' = StrategyAfterResolve(hp, internalPort')
               /\ hpc' = "mapped"
               /\ UNCHANGED hpRet
          ELSE /\ HPReturn("noPort")
               /\ UNCHANGED <<internalPort, hp>>
    /\ UNCHANGED <<cancelAt, now, exposed, port, dials, execs, lastDial,
                   lastExit, execEnd, execGap, sleeps, checks, lastCheck>>

\* target.MappedPort: the mapping, or "" and an error.
MappedPort(p, t) == IF p \in exposed /\ CtxErr(t) = Nil THEN "mapped" ELSE ""

\* ExtLoopTop without the liveness check.
ExtLoopTopNoCheck == "extDial"

\* Where an iteration of the external check starts: at checkTarget.
ExtLoopTop == "extCheckTarget"

FirstMappedPort ==
    /\ hpc = "mapped"
    /\ port' = MappedPort(internalPort, now)
    /\ hpc' = IF port' = "" THEN "portLoop" ELSE ExtLoopTop
    /\ UNCHANGED <<hp, cancelAt, hpRet, now, exposed, internalPort, dials, execs,
                   lastDial, lastExit, execEnd, execGap, sleeps, checks, lastCheck>>

\* One iteration of `for port == ""`: the select, then checkTarget and
\* MappedPort.
PortLoop ==
    /\ hpc = "portLoop"
    /\ \/ \* <-ctx.Done()
          /\ \/ CtxErr(now) # Nil /\ UNCHANGED now
             \/ /\ CtxErr(now) = Nil
                /\ Deadline <= now + Elapse(hp.PollInterval)
                /\ now' = Deadline
          /\ HPReturn("ctxErr")
          /\ UNCHANGED <<port, lastCheck>>
       \/ \* <-time.After(waitInterval)
          /\ \/ CtxErr(now) = Nil /\ now + Elapse(hp.PollInterval) < Deadline
             \/ Elapse(hp.PollInterval) = 0
          /\ now' = now + Elapse(hp.PollInterval)
          /\ \E o \in CheckTargetOutcomes :
               /\ lastCheck' = o
               /\ IF IsError(o)
                  THEN HPReturn(o) /\ UNCHANGED port
                  ELSE /\ port' = MappedPort(internalPort, now')
                       /\ hpc' = IF port' = "" THEN "portLoop" ELSE ExtLoopTop
                       /\ UNCHANGED hpRet
    /\ UNCHANGED <<hp, cancelAt, exposed, internalPort, dials, execs, lastDial,
                   lastExit, execEnd, execGap, sleeps, checks>>

\* checkTarget at the top of an iteration of the external check.
ExtCheckTarget ==
    /\ hpc = "extCheckTarget"
    /\ \E o \in CheckTargetOutcomes :
         /\ lastCheck' = o
         /\ IF IsError(o) THEN HPReturn(o) /\ UNCHANGED checks
            ELSE hpc' = "extDial" /\ checks' = checks + 1 /\ UNCHANGED hpRet
    /\ UNCHANGED <<hp, cancelAt, now, exposed, internalPort, port, dials, execs,
                   lastDial, lastExit, execEnd, execGap, sleeps>>

\* AfterDial retrying after every failed dial.
AfterDialRetryAll(o) == IF o = "ok" THEN "internal" ELSE "sleep"

\* AfterDial entering the internal check whatever the dial returned, unless
\* it was refused.
AfterDialIgnoreErr(o) == IF IsConnRefused(o) THEN "sleep" ELSE "internal"

\* What the external check does with the result of a dial.
AfterDial(o) ==
    IF o = "ok" THEN "internal"
    ELSE IF IsConnRefused(o) THEN "sleep"
    ELSE "return"

\* dialer.DialContext and the handling of its error.
ExtDial ==
    /\ hpc = "extDial"
    /\ dials < MaxDials
    /\ \E d \in 0..MaxOpTime, r \in DialOutcomes :
         LET o == IF CtxErr(now) # Nil \/ (d > 0 /\ now + d >= Deadline)
                  THEN "ctxDialErr" ELSE r
             t == IF CtxErr(now) # Nil THEN now
                  ELSE IF d > 0 /\ now + d >= Deadline THEN Deadline
                  ELSE now + d
         IN /\ now' = t
            /\ lastDial' = o
            /\ dials' = dials + 1
            /\ CASE AfterDial(o) = "internal" -> hpc' = "intCtx" /\ UNCHANGED hpRet
                 [] AfterDial(o) = "sleep" -> hpc' = "extSleep" /\ UNCHANGED hpRet
                 [] OTHER -> HPReturn(o)
    /\ UNCHANGED <<hp, cancelAt, exposed, internalPort, port, execs, lastExit,
                   execEnd, execGap, sleeps, checks, lastCheck>>

\* time.Sleep(waitInterval); continue
ExtSleep ==
    /\ hpc = "extSleep"
    /\ now' = now + Elapse(hp.PollInterval)
    /\ sleeps' = sleeps + 1
    /\ hpc' = ExtLoopTop
    /\ UNCHANGED <<hp, cancelAt, hpRet, exposed, internalPort, port, dials, execs,
                   lastDial, lastExit, execEnd, execGap, checks, lastCheck>>

\* `if ctx.Err() != nil` at the top of an iteration of the internal check.
IntCtx ==
    /\ hpc = "intCtx"
    /\ IF CtxErr(now) # Nil THEN HPReturn(CtxErr(now))
       ELSE hpc' = "intCheckTarget" /\ UNCHANGED hpRet
    /\ UNCHANGED <<hp, cancelAt, hpRun>>

IntCheckTarget ==
    /\ hpc = "intCheckTarget"
    /\ \E o \in CheckTargetOutcomes :
         /\ lastCheck' = o
         /\ IF IsError(o) THEN HPReturn(o) /\ UNCHANGED checks
            ELSE hpc' = "intExec" /\ checks' = checks + 1 /\ UNCHANGED hpRet
    /\ UNCHANGED <<hp, cancelAt, now, exposed, internalPort, port, dials, execs,
                   lastDial, lastExit, execEnd, execGap, sleeps>>

\* AfterExec retrying after every non-zero exit code.
AfterExecRetryAll(code) == IF code = "0" THEN "break" ELSE "loop"

\* What the internal check does with an exit code: break, return, or go
\* round the loop again.
AfterExec(code) ==
    IF code = "0" THEN "break"
    ELSE IF IsNotExecutable(code) THEN "return"
    ELSE "loop"

\* target.Exec and the handling of its result.
IntExec ==
    /\ hpc = "intExec"
    /\ execs < MaxExecs
    /\ \E d \in 0..MaxOpTime, r \in ExitCodes \cup {"execErr"} :
         LET o == IF CtxErr(now) # Nil \/ (d > 0 /\ now + d >= Deadline)
                  THEN "execCtxErr" ELSE r
             t == IF CtxErr(now) # Nil THEN now
                  ELSE IF d > 0 /\ now + d >= Deadline THEN Deadline
                  ELSE now + d
         IN /\ now' = t
            /\ execs' = execs + 1
            /\ lastExit' = o
            /\ execGap' = IF execEnd < 0 THEN 0 - 1 ELSE now - execEnd
            /\ execEnd' = t
            /\ IF o \in {"execErr", "execCtxErr"} THEN HPReturn(o)
               ELSE CASE AfterExec(o) = "break" -> HPReturn(Nil)
                      [] AfterExec(o) = "return" -> HPReturn("notExecutable")
                      [] OTHER -> hpc' = "intCtx" /\ UNCHANGED hpRet
    /\ UNCHANGED <<hp, cancelAt, exposed, internalPort, port, dials, lastDial, sleeps,
                   checks, lastCheck>>

\* StartContainer is about to be called with some options; no wait runs.
InitCB ==
    /\ config \in Configs
    /\ pc = "start"
    /\ step = 1
    /\ bidx = 1
    /\ sub = "none"
    /\ err = Nil
    /\ result = [container |-> "none", err |-> "none"]
    /\ trace = <<>>
    /\ requests = <<>>
    /\ lastStatus = "none"
    /\ attempt = 0
    /\ misses = 0
    /\ lastObs = "none"
    /\ boWait = FALSE
    /\ ctxDone = FALSE
    /\ probed = <<>>

    /\ hp = NewHostPortStrategy("")
    /\ hpc = "idle"
    /\ now = 0
    /\ cancelAt = 0 - 1
    /\ exposed = {}
    /\ internalPort = ""
    /\ port = ""
    /\ hpRet = "none"
    /\ dials = 0
    /\ execs = 0
    /\ lastDial = "none"
    /\ lastExit = "none"
    /\ execEnd = 0 - 1
    /\ execGap = 0 - 1
    /\ sleeps = 0
    /\ checks = 0
    /\ lastCheck = "none"

NextCB ==
    \/ CancelCtx /\ UNCHANGED hpVars
    \/ GenericContainer /\ UNCHANGED hpVars
    \/ WaitUntilNodeIsOnline /\ UNCHANGED hpVars
    \/ InitializeIsEnterprise /\ UNCHANGED hpVars
    \/ RenameNode /\ UNCHANGED hpVars
    \/ InitializeServices /\ UNCHANGED hpVars
    \/ SetMemoryQuotas /\ UNCHANGED hpVars
    \/ ConfigureAdminUser /\ UNCHANGED hpVars
    \/ ConfigureExternalPorts /\ UNCHANGED hpVars
    \/ ConfigureIndexer /\ UNCHANGED hpVars
    \/ WaitUntilAllNodesAreHealthy /\ UNCHANGED hpVars
    \/ InitCheck /\ UNCHANGED hpVars
    \/ CreateBucket /\ UNCHANGED hpVars
    \/ WaitForAllServicesEnabled /\ UNCHANGED hpVars
    \/ IsQueryKeyspacePresent /\ UNCHANGED hpVars
    \/ IsQueryKeyspacePresentWait /\ UNCHANGED hpVars
    \/ PrimaryIndexIgnored /\ UNCHANGED hpVars
    \/ CreatePrimaryIndex /\ UNCHANGED hpVars
    \/ IsPrimaryIndexOnline /\ UNCHANGED hpVars
    \/ IsPrimaryIndexOnlineWait /\ UNCHANGED hpVars
    \/ BucketsCheck /\ UNCHANGED hpVars

SpecCouchbase == InitCB /\ [][NextCB]_vars


\* ------------------------------------------------- properties: pipeline

\* The bootstrap steps in the order the design gives them; bucket
\* provisioning comes last.
StepOrder ==
    <<"renameNode", "initializeServices", "setMemoryQuotas", "configureAdminUser",
      "configureExternalPorts", "configureIndexer", "waitUntilAllNodesAreHealthy">>

BucketOps ==
    {"createBucket", "waitForAllServicesEnabled", "isQueryKeyspacePresent",
     "primaryIndexIgnored", "createPrimaryIndex", "isPrimaryIndexOnline"}

\* Position of an operation in the design's order: 0 for the two probes that
\* precede rename-node, Len(StepOrder) + 1 for bucket provisioning.
Rank(op) ==
    IF op \in BucketOps THEN Len(StepOrder) + 1
    ELSE IF \E k \in 1..Len(StepOrder) : StepOrder[k] = op
         THEN CHOOSE k \in 1..Len(StepOrder) : StepOrder[k] = op
         ELSE 0

\* The step that must have returned before the step of rank k starts.
PrevRank(k) ==
    IF k = 7 /\ ~contains(config.enabledServices, "index") THEN 5 ELSE k - 1

\* C1: the steps are invoked one at a time in the order rename-node,
\* enable-services, memory quotas, admin credentials, external addresses,
\* [index storage mode], wait-until-healthy, bucket provisioning, and each
\* one only after the step before it has returned nil.
C1_StepsInFixedOrder ==
    /\ \A i \in 1..Len(trace) : \A j \in 1..Len(trace) :
         i < j => \/ Rank(trace[i].op) < Rank(trace[j].op)
                  \/ (trace[i].op \in BucketOps /\ trace[j].op \in BucketOps)
                  \/ (Rank(trace[i].op) = 0 /\ Rank(trace[j].op) = 0)
    /\ \A j \in 2..Len(trace) :
         /\ trace[j - 1].ret = Nil
         /\ Rank(trace[j].op) >= 2 /\ Rank(trace[j - 1].op) # Rank(trace[j].op)
              => Rank(trace[j - 1].op) = PrevRank(Rank(trace[j].op))
    /\ (contains(config.enabledServices, "index")
          \/ "configureIndexer" \notin Ops(trace))

C1_Witness ==
    /\ pc = "returned"
    /\ result.err = Nil
    /\ "configureIndexer" \in Ops(trace)
    /\ "createBucket" \in Ops(trace)

\* C2: when a step returns an error nothing is invoked after it, no step
\* is invoked twice, and StartContainer returns that very error.
C2_FirstErrorAborts ==
    /\ \A k \in 1..Len(trace) : IsError(trace[k].ret) =>
         /\ k = Len(trace)
         /\ pc \in {"initCheck", "bucketsCheck", "returned"}
         /\ pc = "returned" => result = [container |-> "nil", err |-> trace[k].ret]
    /\ \A i \in 1..Len(trace) : \A j \in 1..Len(trace) :
         (trace[i].op = trace[j].op /\ trace[i].b = trace[j].b) => i = j
    /\ \A i \in 1..Len(requests) : \A j \in 1..Len(requests) :
         requests[i] = requests[j] => i = j

C2_Witness ==
    /\ pc = "returned"
    /\ Len(trace) = 5
    /\ trace[5].op = "setMemoryQuotas"
    /\ result.err = "doErr"
    /\ Len(config.buckets) > 0

ConfigErrors == {"analyticsEnterpriseOnly", "eventingEnterpriseOnly"}

\* The edition was read from a response and is not enterprise.
DiscoveredNotEnterprise ==
    /\ ~config.isEnterprise
    /\ \E i \in 1..Len(trace) :
         /\ trace[i].op = "initializeIsEnterprise"
         /\ trace[i].ret \in ConfigErrors \cup {Nil}

\* C3: with analytics or eventing enabled on an edition discovered not to
\* be enterprise, StartContainer returns a configuration error, the edition
\* request is sent once, and neither the rename-node request nor any later
\* request is sent.
C3_EnterpriseOnlyRejected ==
    ( /\ contains(config.enabledServices, "analytics")
           \/ contains(config.enabledServices, "eventing")
      /\ DiscoveredNotEnterprise )
    => /\ trace[Len(trace)].op = "initializeIsEnterprise"
       /\ trace[Len(trace)].ret \in ConfigErrors
       /\ requests = <<(<<"initializeIsEnterprise", 0>>)>>
       /\ pc \in {"initCheck", "returned"}
       /\ pc = "returned" =>
            /\ result.container = "nil"
            /\ result.err \in ConfigErrors

C3_Witness ==
    /\ pc = "returned"
    /\ result.err = "eventingEnterpriseOnly"
    /\ lastStatus = "200"

\* The operations recorded for bucket j, the query-service error aside.
OpsOfBucket(j) ==
    LET es == SelectSeq(trace, LAMBDA e : e.b = j /\ e.op # "primaryIndexIgnored")
    IN [i \in 1..Len(es) |-> es[i].op]

\* The sub-steps the design gives bucket j, in order.
RequiredSubs(j) ==
    <<"createBucket", "waitForAllServicesEnabled">>
    \o (IF contains(config.enabledServices, "query")
        THEN <<"isQueryKeyspacePresent">> ELSE <<>>)
    \o (IF config.buckets[j].queryPrimaryIndex
        THEN <<"createPrimaryIndex", "isPrimaryIndexOnline">> ELSE <<>>)

IsPrefix(a, b) == Len(a) <= Len(b) /\ a = SubSeq(b, 1, Len(a))

BucketSucceeded(j) ==
    /\ OpsOfBucket(j) = RequiredSubs(j)
    /\ \A i \in 1..Len(trace) : trace[i].b = j => trace[i].ret = Nil

\* C4: buckets are provisioned in configuration order, each bucket's
\* sub-steps run in the order create, readiness probe, [keyspace check],
\* [create primary index, index online], bucket j+1 is not created before
\* every sub-step of bucket j succeeded, and a failed readiness probe is
\* what StartContainer returns.
C4_BucketsInOrder ==
    /\ \A j \in 1..Len(config.buckets) :
         /\ IsPrefix(OpsOfBucket(j), RequiredSubs(j))
         /\ (j > 1 /\ (\E i \in 1..Len(requests) : requests[i][2] = j))
              => BucketSucceeded(j - 1)
         /\ (j > 1 /\ OpsOfBucket(j) # <<>>) => BucketSucceeded(j - 1)
    /\ \A i \in 1..Len(trace) :
         (trace[i].op = "waitForAllServicesEnabled" /\ IsError(trace[i].ret))
           => /\ \A k \in 1..Len(requests) : requests[k][2] <= trace[i].b
              /\ pc = "returned" => result.err = trace[i].ret

C4_Witness ==
    /\ pc = "returned"
    /\ Len(config.buckets) = 2
    /\ Len(trace) > 0
    /\ trace[Len(trace)] = Entry("waitForAllServicesEnabled", 1, "timeout")
    /\ result.err = "timeout"

\* The requests the pipeline sends on its way forward.
ForwardRequests ==
    { <<n, 0>> : n \in {"initializeIsEnterprise", "renameNode", "initializeServices",
                        "setMemoryQuotas", "configureAdminUser",
                        "configureExternalPorts", "configureIndexer"} }
    \cup { <<n, j>> : n \in {"createBucket", "createPrimaryIndex"},
                      j \in 1..Len(config.buckets) }

\* The bucket at which provisioning failed (0: it did not).
FailedBucket ==
    IF trace # <<>> /\ IsError(trace[Len(trace)].ret) THEN trace[Len(trace)].b ELSE 0

\* Where the step that sent request r is recorded (0: nowhere).
TracePos(r) ==
    IF \E i \in 1..Len(trace) : <<trace[i].op, trace[i].b>> = r
    THEN CHOOSE i \in 1..Len(trace) : <<trace[i].op, trace[i].b>> = r
    ELSE 0

\* C5: after a failure the orchestrator sends nothing more: every request
\* sent belongs to a step that ran, in the order the steps ran, none is a
\* delete, cleanup or terminate, and the buckets before the failing one
\* stay created.
C5_NoCompensation ==
    /\ \A i \in 1..Len(requests) : requests[i] \in ForwardRequests
    /\ \A i \in 1..Len(requests) : TracePos(requests[i]) > 0
    /\ \A i \in 1..Len(requests) : \A j \in 1..Len(requests) :
         i < j => TracePos(requests[i]) < TracePos(requests[j])
    /\ (pc = "returned" /\ FailedBucket > 0)
         => \A j \in 1..(FailedBucket - 1) :
              \E i \in 1..Len(requests) : requests[i] = <<"createBucket", j>>

C5_Witness ==
    /\ pc = "returned"
    /\ FailedBucket = 2
    /\ Len(trace) > 0
    /\ trace[Len(trace)].op = "createPrimaryIndex"
    /\ IsError(result.err)

\* Every step and every declared bucket and index succeeded.
FullSuccess ==
    /\ \A k \in 1..Len(StepOrder) :
         (StepOrder[k] # "configureIndexer"
            \/ contains(config.enabledServices, "index"))
           => \E i \in 1..Len(trace) : trace[i] = Entry(StepOrder[k], 0, Nil)
    /\ \A j \in 1..Len(config.buckets) :
         /\ \E i \in 1..Len(trace) : trace[i] = Entry("createBucket", j, Nil)
         /\ \E i \in 1..Len(trace) : trace[i] = Entry("waitForAllServicesEnabled", j, Nil)
         /\ config.buckets[j].queryPrimaryIndex =>
              /\ \E i \in 1..Len(trace) : trace[i] = Entry("createPrimaryIndex", j, Nil)
              /\ \E i \in 1..Len(trace) : trace[i] = Entry("isPrimaryIndexOnline", j, Nil)

\* C6: StartContainer returns a handle and a nil error only after full
\* success, and a nil handle with a non-nil error in every other run.
C6_NilOnlyOnFullSuccess ==
    pc = "returned" =>
      \/ /\ result = [container |-> "handle", err |-> Nil]
         /\ FullSuccess
      \/ /\ result.container = "nil"
         /\ IsError(result.err)

C6_Witness ==
    /\ pc = "returned"
    /\ result.container = "handle"
    /\ Len(config.buckets) = 2
    /\ config.buckets[1].queryPrimaryIndex
    /\ config.buckets[2].queryPrimaryIndex

\* C7: when the online check sees the index online on attempt k, after
\* k - 1 attempts that did not, isPrimaryIndexOnline returns nil, the check
\* was issued k times, and it is not issued again.
C7_OnlineStopsPolling ==
    (sub = "isPrimaryIndexOnline" /\ lastObs = "true")
    => /\ pc \in {"bucketsCheck", "returned"}
       /\ err = Nil
       /\ trace[Len(trace)] = Entry("isPrimaryIndexOnline", bidx, Nil)
       /\ attempt = misses + 1
       /\ ~boWait

C7_Witness ==
    /\ sub = "isPrimaryIndexOnline"
    /\ lastObs = "true"
    /\ attempt = 5
    /\ misses = 4
    /\ pc = "bucketsCheck"
    /\ err = Nil
    /\ ~ctxDone


\* A strategy was constructed; StartContainer is not running.
InitHP ==
    /\ hp \in { NewHostPortStrategy(p) : p \in PortArgs }
    /\ hpc = "idle"
    /\ now = 0
    /\ cancelAt = 0 - 1
    /\ exposed \in SUBSET {"80/tcp"}
    /\ internalPort = ""
    /\ port = ""
    /\ hpRet = "none"
    /\ dials = 0
    /\ execs = 0
    /\ lastDial = "none"
    /\ lastExit = "none"
    /\ execEnd = 0 - 1
    /\ execGap = 0 - 1
    /\ sleeps = 0
    /\ checks = 0
    /\ lastCheck = "none"

    /\ config = [enabledServices |-> {"kv"}, buckets |-> <<>>, isEnterprise |-> FALSE]
    /\ pc = "start"
    /\ step = 1
    /\ bidx = 1
    /\ sub = "none"
    /\ err = Nil
    /\ result = [container |-> "none", err |-> "none"]
    /\ trace = <<>>
    /\ requests = <<>>
    /\ lastStatus = "none"
    /\ attempt = 0
    /\ misses = 0
    /\ lastObs = "none"
    /\ boWait = FALSE
    /\ ctxDone = FALSE
    /\ probed = <<>>

NextHP ==
    \/ \E d \in DurationArgs : WithStartupTimeout(d) /\ UNCHANGED cbVars
    \/ \E d \in DurationArgs : WithPollInterval(d) /\ UNCHANGED cbVars
    \/ CancelParent /\ UNCHANGED cbVars
    \/ ExposePort /\ UNCHANGED cbVars
    \/ WaitStart /\ UNCHANGED cbVars
    \/ ResolvePort /\ UNCHANGED cbVars
    \/ FirstMappedPort /\ UNCHANGED cbVars
    \/ PortLoop /\ UNCHANGED cbVars
    \/ ExtCheckTarget /\ UNCHANGED cbVars
    \/ ExtDial /\ UNCHANGED cbVars
    \/ ExtSleep /\ UNCHANGED cbVars
    \/ IntCtx /\ UNCHANGED cbVars
    \/ IntCheckTarget /\ UNCHANGED cbVars
    \/ IntExec /\ UNCHANGED cbVars

SpecHostPort == InitHP /\ [][NextHP]_vars

\* ------------------------------------------------ properties: host port

\* C8: a refused dial is followed by a poll-interval sleep and another
\* attempt and is never what the wait returns; any other dial error is
\* returned at once, with no further dial.
C8_RefusedRetriedOthersReturned ==
    /\ hpRet # "refused"
    /\ lastDial = "refused" =>
         \/ hpc = "extSleep" /\ sleeps = dials - 1
         \/ hpc # "extSleep" /\ sleeps = dials
    /\ lastDial \in {"other", "ctxDialErr"} =>
         /\ hpc = "done"
         /\ hpRet = lastDial
         /\ sleeps = dials - 1

C8_Witness ==
    /\ hpc = "done"
    /\ hpRet = "other"
    /\ dials = 2
    /\ sleeps = 1
    /\ now < Deadline
    /\ cancelAt < 0

\* C9: exit code 126 ends the wait at once with an error, whatever is left
\* of the deadline.
C9_NotExecutableIsFatal ==
    lastExit = "126" => hpc = "done" /\ hpRet = "notExecutable"

C9_Witness ==
    /\ lastExit = "126"
    /\ lastDial = "ok"
    /\ execs = 2
    /\ now < Deadline
    /\ cancelAt < 0

\* C10: an exec that follows an exec with a non-zero exit code other than
\* 126 is issued no sooner than one poll interval after that exec returned.
C10_ExecsSpacedByPollInterval ==
    execGap < 0 \/ execGap >= hp.PollInterval

\* --- C11: an empty port map at the first lookup ---

\* Returns that come from the target's answers, not from waiting.
EarlyErrs == {"hostErr", "portsErr", "noPort"}

\* C11 (as stated): a wait without explicit port does not fail merely
\* because the port map is empty at the first lookup: it never returns the
\* "no port to wait for" error.
C11_EmptyPortMapIsPolled == hpRet # "noPort"

\* C11 (amended): with no explicit port the port map is read once; if it is
\* empty the wait returns "no port to wait for" (or the lookup's own error)
\* at once, with no time spent, no port chosen and no probe issued; only the
\* mapped-port lookup of an already chosen port is polled.
C11_EmptyPortMapReturnsNoPort ==
    /\ (hp.Port = "" /\ exposed = {} /\ hpc \notin {"idle", "resolve"})
          => /\ hpc = "done"
             /\ hpRet \in EarlyErrs
             /\ now = 0 /\ dials = 0 /\ execs = 0 /\ internalPort = ""
    /\ hpRet = "noPort" => hp.Port = "" /\ exposed = {} /\ hpc = "done"
    /\ hpc = "portLoop" => internalPort # "" /\ port = ""

\* A wait on the first exposed port of a target that exposes none has
\* returned "no port to wait for".
C11_Witness ==
    hpc = "done" /\ hpRet = "noPort" /\ hp.Port = "" /\ exposed = {}

\* --- C12: a liveness check before every dial and every exec ---

\* C12: every dial and every exec is preceded by its own liveness check
\* that returned nil (one check per attempt, made in the same iteration),
\* and a liveness check that returned an error ends the wait with that
\* error, with no further dial or exec, also before the deadline.
C12_CheckTargetBeforeEachAttempt ==
    /\ hpc \in {"extDial", "intExec"} => checks = dials + execs + 1
    /\ hpc \notin {"extDial", "intExec"} => checks = dials + execs
    /\ lastCheck \notin {"none", Nil} => hpc = "done" /\ hpRet = lastCheck
    /\ dials + execs > 0 => lastCheck # "none"

\* Two dials were made, each after its own liveness check, and the third
\* liveness check failed before the deadline.
C12_Witness ==
    /\ hpc = "done" /\ hpRet = "targetErr" /\ lastCheck = "targetErr"
    /\ dials = 2 /\ checks = 2 /\ now < Deadline

\* --- C13: nil needs a successful dial and then exit code 0 ---

\* C13: the wait returns nil only after a dial that succeeded and, after it,
\* an exec that returned exit code 0; no exec is issued, and the internal
\* check is not entered, before a dial has succeeded.
C13_NilNeedsDialThenExitZero ==
    /\ (hpc = "done" /\ hpRet = Nil)
          => /\ dials >= 1 /\ lastDial = "ok"
             /\ execs >= 1 /\ lastExit = "0"
    /\ (execs > 0 \/ hpc \in {"intCtx", "intCheckTarget", "intExec"})
          => lastDial = "ok"
    /\ lastExit # "none" => execs > 0

\* The wait returned nil after a refused dial, a successful dial, a failed
\* exec and an exec with exit code 0.
C13_Witness ==
    hpc = "done" /\ hpRet = Nil /\ dials = 2 /\ execs = 2 /\ sleeps = 1

\* --- C14: when a wait that never becomes ready returns ---

\* The errors a wait returns because its context is done.
TimeoutErrs == {"ctxErr", "ctxDialErr", "execCtxErr", "deadlineExceeded"}

\* So far the readiness condition never held and nothing else went wrong:
\* the caller did not cancel, the target answered, every liveness check was
\* nil, every dial was refused or cut by the context, or the dial succeeded
\* and every exec returned an exit code other than 0 and 126 or was cut by
\* the context.
NeverReady ==
    /\ cancelAt < 0
    /\ lastCheck # "targetErr"
    /\ hpRet \notin EarlyErrs
    /\ \/ lastDial \in {"none", "refused", "ctxDialErr"}
       \/ lastDial = "ok" /\ lastExit \in {"none", "1", "execCtxErr"}

\* C14: with poll interval p > 0 and deadline d > 0, a wait that never
\* becomes ready is never still waiting, nor returns, at time d + p or
\* later, and when it has returned the time is at least d and the error is
\* the one of the expired context.
C14_TimeoutWithinOnePollInterval ==
    (hp.PollInterval > 0 /\ Deadline > 0 /\ NeverReady /\ hpc # "idle")
       => /\ now < Deadline + hp.PollInterval
          /\ hpc = "done" => now >= Deadline /\ hpRet \in TimeoutErrs

\* A wait with deadline 1 and poll interval 2 returned at time 2: the dial
\* was refused at time 0 and the next dial came after the sleep.
C14_Witness ==
    /\ hpc = "done" /\ hpRet = "ctxDialErr" /\ cancelAt < 0
    /\ hp.PollInterval > 0 /\ Deadline > 0
    /\ now > Deadline /\ sleeps >= 1 /\ lastCheck = Nil

\* --- C15: cancellation of the caller's context ---

\* C15 (as stated): once the caller's context is cancelled the wait spends
\* no further time: no suspension point, the inter-poll sleep of the
\* external check included, runs to its end after the cancellation.
C15_CancelReturnsPromptly == cancelAt >= 0 => now = cancelAt

\* --- C16: writes to the configuration during the pipeline ---

\* C16 (as stated): from the first call of the pipeline to the return of
\* StartContainer no field of the configuration is written.
C16_ConfigFrozen == [][pc # "start" => config' = config]_vars

\* C16 (amended): from the first call of the pipeline to the return of
\* StartContainer the only field of the configuration that is written is
\* isEnterprise, and only by initializeIsEnterprise, before rename-node;
\* the enabled services and the buckets are never written.
C16_OnlyEditionFlagWritten ==
    [][/\ [config' EXCEPT !.isEnterprise = config.isEnterprise] = config
       /\ config' # config =>
             /\ pc = "init"
             /\ CurrentInit = "initializeIsEnterprise"
             /\ "renameNode" \notin Ops(trace)
             /\ Ops(trace') = Ops(trace) \cup {"initializeIsEnterprise"}]_vars

\* StartContainer returned its handle with the edition flag written by
\* initializeIsEnterprise.
C16_Witness ==
    /\ pc = "returned"
    /\ result.container = "handle"
    /\ config.isEnterprise
    /\ "initializeIsEnterprise" \in Ops(trace)

\* --- C17: when configureIndexer runs ---

\* Position in the trace of the call of a clusterInit function, 0 if it was
\* not called.
OpPos(op) == TracePos(<<op, 0>>)

\* C17: configureIndexer is called only if the index service is enabled,
\* then exactly once, right after configureExternalPorts returned nil; and
\* when waitUntilAllNodesAreHealthy is called, configureIndexer was called
\* right before it if the index service is enabled and was not called at
\* all otherwise.
C17_IndexerIffIndexEnabled ==
    LET idx == contains(config.enabledServices, "index")
        pE == OpPos("configureExternalPorts")
        pI == OpPos("configureIndexer")
        pW == OpPos("waitUntilAllNodesAreHealthy")
    IN /\ pI > 0 => /\ idx
                    /\ pE = pI - 1 /\ pE > 0
                    /\ trace[pI - 1].ret = Nil
                    /\ \A i \in 1..Len(trace) :
                         trace[i].op = "configureIndexer" => i = pI
       /\ (pW > 0 /\ idx) => pI = pW - 1 /\ pI > 0 /\ trace[pW - 1].ret = Nil
       /\ (pW > 0 /\ ~idx) => pI = 0 /\ pE = pW - 1

\* With the index service enabled, configureIndexer and then
\* waitUntilAllNodesAreHealthy were called and StartContainer returned the
\* handle.
C17_Witness ==
    /\ pc = "returned"
    /\ result.container = "handle"
    /\ contains(config.enabledServices, "index")
    /\ OpPos("configureIndexer") > 0
    /\ OpPos("waitUntilAllNodesAreHealthy") = OpPos("configureIndexer") + 1

\* --- C18: the probes of waitUntilAllNodesAreHealthy ---

\* The probes the step is to evaluate: the management pool, then one for
\* each of query, analytics and eventing that is enabled.
ExpectedProbes ==
    LET sv(name, probe) ==
            IF name \in config.enabledServices THEN <<probe>> ELSE <<>>
    IN <<"pools/default">> \o sv("query", "query/admin/ping")
       \o sv("analytics", "analytics/admin/ping")
       \o sv("eventing", "eventing/api/v1/config")

\* C18: waitUntilAllNodesAreHealthy evaluates, in this order, the
\* management-pool probe and one probe for each enabled service among
\* query, analytics and eventing, none for a service that is not enabled;
\* it returns nil iff all of them were evaluated and returned nil; a probe
\* that fails is the last one evaluated and its error is the step's.
C18_HealthProbesInSequence ==
    LET pW == OpPos("waitUntilAllNodesAreHealthy")
        names == [i \in 1..Len(probed) |-> probed[i].probe]
    IN /\ pW = 0 => probed = <<>>
       /\ pW > 0 =>
            /\ Len(probed) >= 1
            /\ IsPrefix(names, ExpectedProbes)
            /\ trace[pW].ret = Nil
                 <=> /\ Len(probed) = Len(ExpectedProbes)
                     /\ \A i \in 1..Len(probed) : probed[i].ret = Nil
            /\ \A i \in 1..Len(probed) :
                 probed[i].ret # Nil
                    => i = Len(probed) /\ trace[pW].ret = probed[i].ret

\* With query, analytics and eventing enabled the analytics probe failed:
\* three probes were evaluated, the eventing probe was not.
C18_Witness ==
    /\ pc = "returned"
    /\ OpPos("waitUntilAllNodesAreHealthy") > 0
    /\ Len(ExpectedProbes) = 4
    /\ Len(probed) = 3
    /\ probed[3].ret = "timeout"
    /\ result.err = "timeout"

\* --- C19: the values a strategy can hold ---

\* C19 (as stated): every strategy has a poll interval > 0 and, when a
\* startup timeout is set, a timeout > 0, whatever the arguments of
\* NewHostPortStrategy, WithPollInterval and WithStartupTimeout were.
C19_IntervalAndTimeoutPositive ==
    /\ hp.PollInterval > 0
    /\ \A d \in hp.timeout : d > 0

\* --- C20: WaitUntilReady does not write the strategy ---

\* C20: no step of WaitUntilReady, from its call to its return, changes the
\* strategy's Port, timeout or PollInterval; the port chosen when none was
\* specified is kept outside the strategy.
C20_WaitLeavesStrategyUnchanged ==
    [][(hpc # "idle" \/ hpc' # "idle") => hp' = hp]_vars

\* A wait on a strategy without port chose the exposed port, returned nil,
\* and the strategy still has no port.
C20_Witness ==
    /\ hpc = "done" /\ hpRet = Nil
    /\ hp.Port = "" /\ internalPort = "80/tcp" /\ port = "mapped"

\* --- C21: the backoff checks and the caller's context ---

\* A step of StartContainer itself: any step but the cancellation of the
\* caller's context.
ProgramStepCB == NextCB /\ ctxDone' = ctxDone

\* StartContainer keeps running until it returns: the goroutine that called
\* it is scheduled, and every call it makes returns.
FairSpecCouchbase == SpecCouchbase /\ WF_vars(ProgramStepCB)

BackoffSubs == {"isQueryKeyspacePresent", "isPrimaryIndexOnline"}

\* C21: once the caller's context is done, a keyspace-present or
\* primary-index-online check that is waiting for its next attempt returns
\* the context's error without another call, and a call of the operation
\* made with the context done gets no response and is the last: the check
\* returns the context's error right after it; and once the context is
\* done StartContainer eventually returns.
C21_BackoffObservesContext ==
    /\ [][(pc = "buckets" /\ sub \in BackoffSubs /\ ctxDone) =>
            /\ pc' = "bucketsCheck" /\ err' = "ctxErr"
            /\ boWait => attempt' = attempt /\ lastObs' = lastObs
            /\ ~boWait => attempt' = attempt + 1 /\ lastObs' = "error"]_vars
    /\ (ctxDone ~> pc = "returned")

\* The primary index was reported not online, the context was cancelled
\* during the wait for the next attempt, and the check returned the
\* context's error after that one attempt.
C21_Witness ==
    /\ pc = "bucketsCheck" /\ sub = "isPrimaryIndexOnline"
    /\ ctxDone /\ err = "ctxErr"
    /\ attempt = 1 /\ lastObs = "false"

\* --- C22: state-changing requests are not repeated ---

\* The state-changing requests of a run: one per clusterInit function that
\* changes the node, and per bucket the create and the primary-index
\* requests.
StateChanging ==
    { <<n, 0>> : n \in {"renameNode", "initializeServices", "setMemoryQuotas",
                        "configureAdminUser", "configureExternalPorts",
                        "configureIndexer"} }
    \cup { <<n, j>> : n \in {"createBucket", "createPrimaryIndex"},
                      j \in 1..Len(config.buckets) }

\* How many times request r was sent.
TimesSent(r) == Cardinality({ i \in 1..Len(requests) : requests[i] = r })

\* How many times the function that sends r was called.
TimesCalled(r) ==
    Cardinality({ i \in 1..Len(trace) : <<trace[i].op, trace[i].b>> = r })

\* C22: every state-changing request is sent at most once in a run and the
\* function that sends it is called at most once; what is repeated is only
\* the operation of a backoff check.
C22_StateChangingAtMostOnce ==
    /\ \A r \in StateChanging : TimesSent(r) <= 1 /\ TimesCalled(r) <= 1
    /\ attempt > 1 => sub \in BackoffSubs

\* A run in which a backoff check was repeated while every state-changing
\* request up to the primary index of the second bucket was sent once.
C22_Witness ==
    /\ attempt = 3
    /\ sub = "isPrimaryIndexOnline"
    /\ bidx = 2
    /\ TimesSent(<<"createPrimaryIndex", 2>>) = 1
    /\ TimesSent(<<"createBucket", 1>>) = 1
    /\ TimesSent(<<"renameNode", 0>>) = 1

\* --- C23: the response status does not decide a step's result ---

StateChangingOps == { r[1] : r \in StateChanging }

\* What makes a state-changing step fail: the node's address or the URL
\* cannot be resolved, the request cannot be built, the transport fails, the
\* body cannot be read.
RequestFailures == {"ipErr", "buildErr", "doErr", "readErr"}

\* A state-changing step has just returned and its result is being tested.
AfterStateChanging ==
    /\ pc \in {"initCheck", "bucketsCheck"}
    /\ Len(trace) > 0
    /\ trace[Len(trace)].op \in StateChangingOps

\* C23: a state-changing step returns nil exactly when a response was read,
\* whatever its status, 500 included, and otherwise returns one of the
\* failures of building, sending or reading; after a response the pipeline
\* goes on to the next step (or returns the handle if there is none).
C23_AnyStatusIsSuccess ==
    /\ [](AfterStateChanging =>
            /\ lastStatus \in Statuses <=> err = Nil
            /\ trace[Len(trace)].ret = err
            /\ IsError(err) => err \in RequestFailures /\ lastStatus = "none")
    /\ [][(AfterStateChanging /\ lastStatus \in Statuses /\ pc' # pc) =>
            /\ pc' \in {"init", "buckets", "returned"}
            /\ pc' = "returned" => result'.err = Nil
            /\ trace' = trace]_vars

\* The rename-node request was answered with status 500 and the pipeline
\* went on to initializeServices.
C23_Witness ==
    /\ pc = "init"
    /\ CurrentInit = "initializeServices"
    /\ lastStatus = "500"
    /\ Len(trace) > 0
    /\ trace[Len(trace)] = Entry("renameNode", 0, Nil)

\* --- C24: a primary index without the query service ---

\* Bucket j asks for a primary index and the query service is not enabled.
IndexWithoutQuery(j) ==
    /\ j \in 1..Len(config.buckets)
    /\ config.buckets[j].queryPrimaryIndex
    /\ ~contains(config.enabledServices, "query")

\* The call recorded for operation op of bucket j returned nil.
ReturnedNil(op, j) ==
    \E i \in 1..Len(trace) : trace[i] = Entry(op, j, Nil)

\* C24: when bucket j asks for a primary index and the query service is not
\* enabled, a run that returns returns an error; the "ignored" error for j
\* is raised only after j's create request was sent and j's readiness probe
\* returned nil, and is raised whenever the run got that far; no
\* create-primary-index request is sent for j and no request at all for a
\* later bucket.
C24_IndexWithoutQueryFoundLate ==
    \A j \in 1..Len(config.buckets) : IndexWithoutQuery(j) =>
       /\ pc = "returned" => IsError(result.err)
       /\ TimesSent(<<"createPrimaryIndex", j>>) = 0
       /\ \A k \in (j + 1)..Len(config.buckets) :
            /\ TimesSent(<<"createBucket", k>>) = 0
            /\ \A i \in 1..Len(trace) : trace[i].b # k
       /\ ReturnedNil("waitForAllServicesEnabled", j) =>
            /\ TimesSent(<<"createBucket", j>>) = 1
            /\ ReturnedNil("createBucket", j)
            /\ pc = "returned" => result.err = "primaryIndexIgnored"
       /\ (\E i \in 1..Len(trace) : trace[i].op = "primaryIndexIgnored" /\ trace[i].b = j)
            => ReturnedNil("waitForAllServicesEnabled", j)

\* With two buckets, the first asking for a primary index, and no query
\* service: the first bucket was created and probed, and StartContainer
\* returned the "ignored" error.
C24_Witness ==
    /\ pc = "returned"
    /\ Len(config.buckets) = 2
    /\ IndexWithoutQuery(1)
    /\ result.err = "primaryIndexIgnored"
    /\ TimesSent(<<"createBucket", 1>>) = 1
    /\ ReturnedNil("waitForAllServicesEnabled", 1)

====
